---- MODULE Spec2Model ----
(***************************************************************************)
(* A model of lastfm.py: the last.fm client (LastFM), its memoized query   *)
(* builder, the HTTP round trip of call_api, and the projection of JSON    *)
(* and XML responses into Track objects.                                   *)
(*                                                                         *)
(* Text.  A Python string is a sequence of symbols.  A symbol is either a  *)
(* single reserved character (" ", "&", "=", "+", "#", "%", "?") or a      *)
(* block of unreserved characters ("alice", "text", "track.getInfo").  The  *)
(* one substring the code looks for inside string values is "#text"; no    *)
(* block of a value tested holds it except the block "text" after "#", so  *)
(* the test on symbols agrees with the test on characters.                 *)
(*                                                                         *)
(* Python values are tagged records: kind is "str", "int", "bool", "None", *)
(* "dict" or "list".                                                       *)
(***************************************************************************)
EXTENDS Integers, Sequences, FiniteSets, TLC

VARIABLES
    api_key,    \* LastFM.api_key, a string
    fmt,        \* LastFM.fmt, "json" or "xml"
    debug,      \* Python's __debug__: FALSE when run with -O (asserts stripped)
    qs_cache,   \* the lru_cache of build_qs: entries oldest first
    last        \* the last operation: its arguments, the request, the outcome

vars == <<api_key, fmt, debug, qs_cache, last>>

----------------------------------------------------------------------------
(* Python values *)

PStr(s) == [kind |-> "str", s |-> s]
PInt(n) == [kind |-> "int", n |-> n]
PBool(b) == [kind |-> "bool", b |-> b]
PNone == [kind |-> "None"]
PDict(f) == [kind |-> "dict", f |-> f]
PList(items) == [kind |-> "list", items |-> items]

EmptyDict == [k \in {} |-> PNone]

\* the result of a call: a returned value or a raised exception
Ok(v) == [status |-> "ok", value |-> v]
Raise(exc) == [status |-> "raise", exc |-> exc]

\* Python truthiness of the values used as arguments
Truthy(v) ==
    CASE v.kind = "None" -> FALSE
      [] v.kind = "str" -> v.s # <<>>
      [] v.kind = "int" -> v.n # 0
      [] v.kind = "bool" -> v.b
      [] v.kind = "dict" -> DOMAIN v.f # {}
      [] v.kind = "list" -> v.items # <<>>

\* needle occurs in hay as a contiguous run
IsSubstr(needle, hay) ==
    \E i \in 0..(Len(hay) - Len(needle)) :
        SubSeq(hay, i + 1, i + Len(needle)) = needle

\* the characters of a dict key or attribute name, as a string
KeyStr(k) == IF k = "#text" THEN <<"#", "text">> ELSE <<k>>

\* str(v)
RECURSIVE PyStr(_)
PyStr(v) ==
    CASE v.kind = "str" -> v.s
      [] v.kind = "int" -> <<ToString(v.n)>>
      [] v.kind = "bool" -> IF v.b THEN <<"True">> ELSE <<"False">>
      [] v.kind = "None" -> <<"None">>
      [] v.kind = "dict" ->
            <<"{">> \o
            (IF "name" \in DOMAIN v.f
                THEN <<"'name': '">> \o PyStr(v.f["name"]) \o <<"'">>
                ELSE <<>>)
            \o <<"}">>
      [] v.kind = "list" -> <<"[...]">>

\* key in v, for the container kinds ("in" on the others raises TypeError)
PyIn(k, v) ==
    CASE v.kind = "dict" -> k \in DOMAIN v.f
      [] v.kind = "str" -> IsSubstr(KeyStr(k), v.s)
      [] v.kind = "list" -> \E i \in 1..Len(v.items) : v.items[i] = PStr(KeyStr(k))
      [] OTHER -> FALSE

Iterable(v) == v.kind \in {"dict", "str", "list"}

----------------------------------------------------------------------------
(* keyword arguments: a dict in insertion order, as a sequence of pairs *)

KwNames(kw) == {kw[i][1] : i \in 1..Len(kw)}

\* kw[name] = value: in place when the name is there, appended otherwise
KwSet(kw, name, value) ==
    IF name \in KwNames(kw)
        THEN [i \in 1..Len(kw) |-> IF kw[i][1] = name THEN <<name, value>> ELSE kw[i]]
        ELSE Append(kw, <<name, value>>)

----------------------------------------------------------------------------
(* urllib.parse.urlencode *)

QuoteSym(c) ==
    CASE c = " " -> "+"
      [] c = "&" -> "%26"
      [] c = "=" -> "%3D"
      [] c = "+" -> "%2B"
      [] c = "#" -> "%23"
      [] c = "%" -> "%25"
      [] c = "?" -> "%3F"
      [] OTHER -> c

quote_plus(s) == [i \in 1..Len(s) |-> QuoteSym(s[i])]

RECURSIVE urlencode(_)
urlencode(kw) ==
    IF kw = <<>> THEN <<>>
    ELSE quote_plus(KeyStr(kw[1][1])) \o <<"=">> \o quote_plus(PyStr(kw[1][2]))
         \o (IF Len(kw) > 1 THEN <<"&">> \o urlencode(Tail(kw)) ELSE <<>>)

----------------------------------------------------------------------------
(* LastFM: the query builder *)

url == "http://ws.audioscrobbler.com/2.0/"

QsCacheMax == 32

\* the body of build_qs, run on a cache miss
BuildQsBody(key, keys) ==
    <<url, "?">> \o urlencode(KwSet(keys, "api_key", PStr(key)))

\* functools.lru_cache around build_qs.  The cache key is (self, **keys):
\* self hashes by identity, so the key does not hold self.api_key.
CacheIndex(cache, keys) ==
    IF \E i \in 1..Len(cache) : cache[i].args = keys
        THEN CHOOSE i \in 1..Len(cache) : cache[i].args = keys
        ELSE 0

RemoveAt(s, i) == SubSeq(s, 1, i - 1) \o SubSeq(s, i + 1, Len(s))

\* build_qs(**keys) with the client's key being `key`: the URL returned and
\* the cache afterwards
build_qs(cache, key, keys) ==
    LET i == CacheIndex(cache, keys) IN
    IF i # 0
        THEN [url |-> cache[i].url,
              cache |-> Append(RemoveAt(cache, i), cache[i])]
        ELSE LET u == BuildQsBody(key, keys)
                 e == [args |-> keys, url |-> u]
             IN [url |-> u,
                 cache |-> IF Len(cache) >= QsCacheMax
                              THEN Append(Tail(cache), e)
                              ELSE Append(cache, e)]

----------------------------------------------------------------------------
(* LastFM: the HTTP round trip *)

\* A response text is stood for by the document it serialises: syntax says
\* of which format it is well-formed ("json", "xml", or "text" for neither).
Text(syntax, doc) == [kind |-> "str", syntax |-> syntax, doc |-> doc]

\* the outcome of response.text(): the text, or an exception with a message
TextFails(msg) == [status |-> "raise", exc |-> "ClientError", msg |-> msg]

Response(status, text) == [status |-> status, text |-> text]

HttpOk == 200

LastFMError(errorcode, error) ==
    [status |-> "raise", exc |-> "LastFMError",
     errorcode |-> errorcode, error |-> error]

\* parse_data: json.loads or minidom.parseString, by the client's format.
\* Its lru_cache is keyed on (self, response); fmt is fixed at construction,
\* so a hit returns what the parse returns.
parse_data(f, response) ==
    IF f = "json"
        THEN IF response.syntax = "json" THEN Ok(response.doc) ELSE Raise("ValueError")
        ELSE IF response.syntax = "xml" THEN Ok(response.doc) ELSE Raise("ExpatError")

\* the data of the LastFMError raised on a non-200 status
ErrorData_unread(text) ==
    PStr(<<"<Server error: ">> \o (IF text.status = "ok" THEN <<>> ELSE text.msg)
         \o <<">">>)
ErrorData(text) ==
    IF text.status = "ok"
        THEN text.value
        ELSE PStr(<<"<Server error: ">> \o text.msg \o <<">">>)

\* the keyword arguments call_api hands to build_qs
CallKeys(f, method, keys) ==
    LET k1 == KwSet(keys, "method", PStr(<<method>>))
    IN IF f = "json" THEN KwSet(k1, "format", PStr(<<f>>)) ELSE k1

\* call_api(method, **keys) when the transport answers resp: the URL
\* requested, the cache afterwards, whether the body was parsed, the outcome
call_api(cache, key, f, method, keys, resp) ==
    LET q == build_qs(cache, key, CallKeys(f, method, keys))
        failed == resp.status # HttpOk
        out == IF failed
                  THEN LastFMError(resp.status, ErrorData(resp.text))
                  ELSE IF resp.text.status # "ok"
                          THEN Raise(resp.text.exc)
                          ELSE parse_data(f, resp.text.value)
    IN [url |-> q.url, cache |-> q.cache,
        parsed |-> (~failed /\ resp.text.status = "ok"),
        out |-> out]

----------------------------------------------------------------------------
(* Track *)

TrackKw == {"album", "tags", "duration", "loved", "mbid", "playing", "description"}

\* the attributes a Track instance has: those __init__ sets, and the class's
TrackFields == {"artist", "title"} \cup TrackKw
TrackClassAttrs == {"__init__", "__str__", "format", "from_json", "from_xml"}

HasAttr(name) == name \in TrackFields \cup TrackClassAttrs

\* kwargs.get(name, None)
KwargsGet(kw, name) == IF name \in DOMAIN kw THEN kw[name] ELSE PNone

\* Track(artist, title, **kw)
NewTrack(artist, title, kw) ==
    [n \in TrackFields |->
        IF n = "artist" THEN artist
        ELSE IF n = "title" THEN title
        ELSE KwargsGet(kw, n)]

\* track.name, for the names that are not methods
GetAttr(track, name) ==
    IF name \in DOMAIN track THEN Ok(track[name]) ELSE Raise("AttributeError")

\* v[k] for a string key k
Subscript(v, k) ==
    IF v.kind = "dict"
        THEN IF k \in DOMAIN v.f THEN Ok(v.f[k]) ELSE Raise("KeyError")
        ELSE Raise("TypeError")

\* the two shapes of artist and album: {"#text": x} gives x, anything else
\* its str()
TextOrStr(v) ==
    IF ~Iterable(v) THEN Raise("TypeError")
    ELSE IF PyIn("#text", v) THEN Subscript(v, "#text")
    ELSE Ok(PStr(PyStr(v)))

\* "@attr" in json and "nowplaying" in json["@attr"]
Playing(json) ==
    IF ~PyIn("@attr", json) THEN Ok(PBool(FALSE))
    ELSE LET a == Subscript(json, "@attr") IN
         IF a.status # "ok" THEN a
         ELSE IF ~Iterable(a.value) THEN Raise("TypeError")
         ELSE Ok(PBool(PyIn("nowplaying", a.value)))

\* kw["mbid"], set only when the field is there and is not ""
JsonMbid(json) ==
    IF PyIn("mbid", json) /\ json.f["mbid"] # PStr(<<>>)
        THEN ("mbid" :> json.f["mbid"]) ELSE EmptyDict

\* kw["loved"], set only when the field is there
JsonLoved_default(json) ==
    "loved" :> PBool(PyIn("loved", json) /\ json.f["loved"] = PStr(<<"1">>))
JsonLoved(json) ==
    IF PyIn("loved", json)
        THEN ("loved" :> PBool(json.f["loved"] = PStr(<<"1">>))) ELSE EmptyDict

\* Track.from_json(json); dbg says whether the asserts run
from_json(dbg, json) ==
    IF ~Iterable(json) THEN Raise("TypeError")
    ELSE IF dbg /\ ~PyIn("name", json) THEN Raise("AssertionError")
    ELSE IF dbg /\ ~PyIn("artist", json) THEN Raise("AssertionError")
    ELSE LET a == Subscript(json, "artist") IN
    IF a.status # "ok" THEN a
    ELSE LET artist == TextOrStr(a.value) IN
    IF artist.status # "ok" THEN artist
    ELSE LET title == Subscript(json, "name") IN
    IF title.status # "ok" THEN title
    ELSE LET album == IF PyIn("album", json)
                         THEN TextOrStr(json.f["album"]) ELSE Ok(PNone) IN
    IF album.status # "ok" THEN album
    ELSE LET playing == Playing(json) IN
    IF playing.status # "ok" THEN playing
    ELSE Ok(NewTrack(artist.value, title.value,
                     (IF PyIn("album", json)
                         THEN ("album" :> album.value) ELSE EmptyDict)
                     @@ ("playing" :> playing.value)
                     @@ JsonMbid(json) @@ JsonLoved(json)))

----------------------------------------------------------------------------
(* Track.from_xml *)

\* An element is stood for by what the code reads of it: its attributes, the
\* elements getElementsByTagName finds under it for each tag (in document
\* order), and its own child nodes.
Node(nodeType, data) == [nodeType |-> nodeType, data |-> data]
Element(attrs, elems, childNodes) ==
    [attrs |-> attrs, elems |-> elems, childNodes |-> childNodes]
Leaf(childNodes) == Element({}, EmptyDict, childNodes)

getElementsByTagName(el, tag) ==
    IF tag \in DOMAIN el.elems THEN el.elems[tag] ELSE <<>>

RECURSIVE TextParts(_)
TextParts(nodes) ==
    IF nodes = <<>> THEN <<>>
    ELSE (IF Head(nodes).nodeType = "TEXT" THEN Head(nodes).data ELSE <<>>)
         \o TextParts(Tail(nodes))

xml_get_text(tag) == TextParts(tag.childNodes)

\* list[0]
First_default(list) == IF list = <<>> THEN Ok(Leaf(<<>>)) ELSE Ok(list[1])
First(list) == IF list = <<>> THEN Raise("IndexError") ELSE Ok(list[1])

\* kw["mbid"], set only when the text of the mbid element is not ""
XmlMbid_keepEmpty(mbid) == "mbid" :> PStr(mbid)
XmlMbid(mbid) == IF mbid # <<>> THEN ("mbid" :> PStr(mbid)) ELSE EmptyDict

\* kw["loved"], set only when there is a loved element
XmlLoved(loved_tag) ==
    IF Len(loved_tag) > 0
        THEN ("loved" :> PBool(xml_get_text(loved_tag[1]) = <<"1">>))
        ELSE EmptyDict

\* Track.from_xml(xml)
from_xml(xml) ==
    LET a == First(getElementsByTagName(xml, "artist")) IN
    IF a.status # "ok" THEN a
    ELSE LET t == First(getElementsByTagName(xml, "name")) IN
    IF t.status # "ok" THEN t
    ELSE LET al == First(getElementsByTagName(xml, "album")) IN
    IF al.status # "ok" THEN al
    ELSE LET m == First(getElementsByTagName(xml, "mbid")) IN
    IF m.status # "ok" THEN m
    ELSE LET album == xml_get_text(al.value) IN
         Ok(NewTrack(PStr(xml_get_text(a.value)), PStr(xml_get_text(t.value)),
                     (IF album # <<>> THEN ("album" :> PStr(album)) ELSE EmptyDict)
                     @@ XmlMbid(xml_get_text(m.value))
                     @@ ("playing" :> PBool("nowplaying" \in xml.attrs))
                     @@ XmlLoved(getElementsByTagName(xml, "loved"))))

----------------------------------------------------------------------------
(* LastFM.get_tracks *)

\* [f(t) for t in items]: the list, or the first exception raised
RECURSIVE TracksFromJson(_, _)
TracksFromJson(dbg, items) ==
    IF items = <<>> THEN Ok(<<>>)
    ELSE LET h == from_json(dbg, Head(items)) IN
         IF h.status # "ok" THEN h
         ELSE LET r == TracksFromJson(dbg, Tail(items)) IN
              IF r.status # "ok" THEN r ELSE Ok(<<h.value>> \o r.value)

RECURSIVE TracksFromXml(_)
TracksFromXml(items) ==
    IF items = <<>> THEN Ok(<<>>)
    ELSE LET h == from_xml(Head(items)) IN
         IF h.status # "ok" THEN h
         ELSE LET r == TracksFromXml(Tail(items)) IN
              IF r.status # "ok" THEN r ELSE Ok(<<h.value>> \o r.value)

\* if not isinstance(data, list): data = [data]
AsList_always(data) == PList(<<data>>)
AsList(data) == IF data.kind # "list" THEN PList(<<data>>) ELSE data

\* the JSON branch of get_tracks, on the parsed response
TracksOfJson(dbg, data) ==
    IF ~Iterable(data) THEN Raise("TypeError")
    ELSE IF dbg /\ ~PyIn("recenttracks", data) THEN Raise("AssertionError")
    ELSE LET rt == Subscript(data, "recenttracks") IN
    IF rt.status # "ok" THEN rt
    ELSE IF ~Iterable(rt.value) THEN Raise("TypeError")
    ELSE IF dbg /\ ~PyIn("track", rt.value) THEN Raise("AssertionError")
    ELSE LET tr == Subscript(rt.value, "track") IN
    IF tr.status # "ok" THEN tr
    ELSE TracksFromJson(dbg, AsList(tr.value).items)

\* the XML branch of get_tracks, on the parsed response
TracksOfXml(data) == TracksFromXml(getElementsByTagName(data, "track"))

\* the keyword arguments get_tracks hands to call_api
TracksKeys(user, limit) ==
    LET keys == <<<<"user", user>>, <<"extended", PStr(<<"1">>)>>>>
    IN IF limit # PNone THEN KwSet(keys, "limit", limit) ELSE keys

\* get_tracks(user, limit) when the transport answers resp
get_tracks(cache, key, f, dbg, user, limit, resp) ==
    IF dbg /\ ~Truthy(user)
        THEN [requested |-> FALSE, cache |-> cache, out |-> Raise("AssertionError")]
    ELSE LET c == call_api(cache, key, f, "user.getRecentTracks",
                           TracksKeys(user, limit), resp)
         IN [requested |-> TRUE, url |-> c.url, cache |-> c.cache,
             parsed |-> c.parsed,
             out |-> IF c.out.status # "ok" THEN c.out
                     ELSE IF f = "json" THEN TracksOfJson(dbg, c.out.value)
                     ELSE TracksOfXml(c.out.value)]

----------------------------------------------------------------------------
(* LastFM.get_track_info *)

\* The track argument: an mbid string, an (artist, title) tuple, or a Track.
RefStr(s) == [ref |-> "str", s |-> s]
RefPair(artist, title) == [ref |-> "tuple", artist |-> artist, title |-> title]
RefTrack(t) == [ref |-> "Track", track |-> t]

\* hasattr(track, name): of the three, the Track alone has the Track fields
RefHasAttr(track, name) == track.ref = "Track" /\ HasAttr(name)

\* the keys of a Track without mbid: track.artist and track.track
InfoKeysOfTrack(keys, t) ==
    LET a == GetAttr(t, "artist") IN
    IF a.status # "ok" THEN a
    ELSE LET tt == GetAttr(t, "track") IN
         IF tt.status # "ok" THEN tt
         ELSE Ok(KwSet(KwSet(keys, "artist", a.value), "track", tt.value))

\* the keyword arguments get_track_info hands to call_api, or the exception
\* raised while building them
InfoKeys(track, user) ==
    LET keys == IF Truthy(user) THEN <<<<"username", user>>>> ELSE <<>> IN
    IF RefHasAttr(track, "mbid")
        THEN IF track.track["mbid"] # PNone
                THEN Ok(KwSet(keys, "mbid", track.track["mbid"]))
                ELSE InfoKeysOfTrack(keys, track.track)
    ELSE IF track.ref = "str"
        THEN Ok(KwSet(keys, "mbid", PStr(track.s)))
    ELSE Ok(KwSet(KwSet(keys, "artist", PStr(track.artist)),
                  "track", PStr(track.title)))

\* get_track_info(track, user) when the transport answers resp
get_track_info(cache, key, f, track, user, resp) ==
    LET k == InfoKeys(track, user) IN
    IF k.status # "ok"
        THEN [requested |-> FALSE, cache |-> cache, out |-> k]
    ELSE LET c == call_api(cache, key, f, "track.getInfo", k.value, resp)
         IN [requested |-> TRUE, url |-> c.url, cache |-> c.cache,
             parsed |-> c.parsed, keys |-> k.value, out |-> c.out]

----------------------------------------------------------------------------
(* Track.format *)

\* A template is a sequence of pieces: literal text, or a {name} field.
Lit(s) == [piece |-> "lit", s |-> s]
Field(name) == [piece |-> "field", name |-> name]

TemplateFields(tmpl) ==
    {tmpl[i].name : i \in {j \in 1..Len(tmpl) : tmpl[j].piece = "field"}}

RECURSIVE Substituted(_, _)
Substituted(tmpl, ctx) ==
    IF tmpl = <<>> THEN <<>>
    ELSE (IF Head(tmpl).piece = "lit" THEN Head(tmpl).s
          ELSE PyStr(ctx[Head(tmpl).name]))
         \o Substituted(Tail(tmpl), ctx)

\* tmpl.format(**ctx)
StrFormat(tmpl, ctx) ==
    IF TemplateFields(tmpl) \subseteq DOMAIN ctx
        THEN Ok(PStr(Substituted(tmpl, ctx)))
        ELSE Raise("KeyError")

\* props.update(d)
DictUpdate(props, d) == d @@ props

\* Track.format(fmt, **props).  The comprehension reads self.__slots__,
\* which the Track class does not define.
format(self, tmpl, props) ==
    LET slots == GetAttr(self, "__slots__") IN
    IF slots.status # "ok" THEN slots
    ELSE LET names == {n \in slots.value : n \in DOMAIN self /\ self[n] # PNone}
             d == [n \in names |-> self[n]]
         IN StrFormat(tmpl, DictUpdate(props, d))

----------------------------------------------------------------------------
(* The inputs *)

\* the number of distinct queries a run builds
MaxEntries == 2

ApiKeys == {<<"K1">>, <<"K2">>}
Formats == {"json", "xml"}

Alice == <<"alice">>
DaftPunk == <<"Daft", " ", "Punk">>
OneMoreTime == <<"One", " ", "More", " ", "Time">>
Mbid1 == <<"mbid-1">>

\* track objects of a JSON response
JsonNowPlaying ==
    PDict("artist" :> PDict("#text" :> PStr(DaftPunk))
          @@ "name" :> PStr(OneMoreTime)
          @@ "@attr" :> PDict("nowplaying" :> PStr(<<"true">>)))
JsonLovedTrack ==
    PDict("artist" :> PStr(DaftPunk) @@ "name" :> PStr(OneMoreTime)
          @@ "mbid" :> PStr(<<>>) @@ "loved" :> PStr(<<"1">>))
JsonNoArtist == PDict("name" :> PStr(OneMoreTime))
JsonNoName == PDict("artist" :> PStr(DaftPunk))

ClientJsonItems == {JsonNowPlaying, JsonLovedTrack, JsonNoArtist, JsonNoName}

RecentTracks(track) == PDict("recenttracks" :> PDict("track" :> track))

ClientJsonDocs ==
    {RecentTracks(t) : t \in ClientJsonItems}
    \cup {RecentTracks(PList(<<t>>)) : t \in ClientJsonItems}
    \cup {RecentTracks(PList(<<>>)),
          RecentTracks(PList(<<JsonNowPlaying, JsonLovedTrack>>)),
          RecentTracks(PList(<<JsonNowPlaying, JsonNoArtist>>)),
          PDict("error" :> PInt(6))}

\* track elements of an XML response
TextEl(s) == Leaf(<<Node("TEXT", s)>>)
EmptyEl == Leaf(<<>>)

XmlFull ==
    Element({"nowplaying"},
            "artist" :> <<TextEl(DaftPunk)>> @@ "name" :> <<TextEl(OneMoreTime)>>
            @@ "album" :> <<TextEl(<<"Discovery">>)>> @@ "mbid" :> <<TextEl(Mbid1)>>
            @@ "loved" :> <<TextEl(<<"1">>)>>,
            <<>>)
XmlPlain ==
    Element({},
            "artist" :> <<TextEl(DaftPunk)>> @@ "name" :> <<TextEl(OneMoreTime)>>
            @@ "album" :> <<EmptyEl>> @@ "mbid" :> <<EmptyEl>>,
            <<>>)
XmlNoArtist ==
    Element({},
            "name" :> <<TextEl(OneMoreTime)>>
            @@ "album" :> <<EmptyEl>> @@ "mbid" :> <<EmptyEl>>,
            <<>>)
XmlNoName ==
    Element({},
            "artist" :> <<TextEl(DaftPunk)>>
            @@ "album" :> <<EmptyEl>> @@ "mbid" :> <<EmptyEl>>,
            <<>>)

XmlDoc(tracks) == Element({}, "track" :> tracks, <<>>)

ClientXmlDocs ==
    {XmlDoc(<<>>), XmlDoc(<<XmlFull>>), XmlDoc(<<XmlPlain>>),
     XmlDoc(<<XmlFull, XmlPlain>>), XmlDoc(<<XmlNoArtist>>),
     XmlDoc(<<XmlFull, XmlNoName>>)}

InternalError == Text("text", <<"Internal", " ", "error">>)
ReadFailure == TextFails(<<"Connection", " ", "closed">>)

ErrorStatuses == {404, 500}

\* what the transport may answer: a status, and a text or a failure to read it
ErrorResponses ==
    {Response(st, t) : st \in ErrorStatuses, t \in {Ok(InternalError), ReadFailure}}

GoodDoc(f) ==
    IF f = "json" THEN Text("json", RecentTracks(JsonNowPlaying))
    ELSE Text("xml", XmlDoc(<<XmlFull>>))

ClientResponses == ErrorResponses \cup {Response(HttpOk, Ok(GoodDoc(fmt)))}

TracksResponses ==
    ErrorResponses
    \cup {Response(st, Ok(Text("json", PDict("error" :> PInt(6))))) : st \in ErrorStatuses}
    \cup {Response(HttpOk, Ok(Text("json", d))) : d \in ClientJsonDocs}
    \cup {Response(HttpOk, Ok(Text("xml", d))) : d \in ClientXmlDocs}
    \cup {Response(HttpOk, Ok(InternalError)), Response(HttpOk, ReadFailure)}

TracksUsers == {PStr(<<>>), PStr(<<"a", "&", "b">>)}
Limits == {PNone, PInt(5)}

TrackWithMbid == NewTrack(PStr(DaftPunk), PStr(OneMoreTime), "mbid" :> PStr(Mbid1))
TrackWithoutMbid == NewTrack(PStr(DaftPunk), PStr(OneMoreTime), EmptyDict)

TrackRefs ==
    {RefStr(Mbid1), RefPair(DaftPunk, OneMoreTime),
     RefTrack(TrackWithMbid), RefTrack(TrackWithoutMbid)}
InfoUsers == {PNone, PStr(Alice)}

DirectMethods == {"tag.getInfo"}
DirectKeys == {<<<<"tag", PStr(<<"drum", "&", "bass">>)>>>>}

----------------------------------------------------------------------------
(* The client *)

\* LastFM(api_key, fmt), in an interpreter that runs the asserts
Init ==
    /\ api_key \in ApiKeys
    /\ fmt \in Formats
    /\ debug = TRUE
    /\ qs_cache = <<>>
    /\ last = [op |-> "init"]

\* client.api_key = key
SetApiKey ==
    \E key \in ApiKeys \ {api_key} :
        /\ api_key' = key
        /\ last' = [op |-> "set_api_key"]
        /\ UNCHANGED <<fmt, debug, qs_cache>>

\* client.build_qs(**keys), with the keys call_api would pass
BuildQs ==
    \E method \in DirectMethods, keys \in DirectKeys :
        LET kw == CallKeys(fmt, method, keys)
            q == build_qs(qs_cache, api_key, kw)
        IN /\ Len(q.cache) <= MaxEntries
           /\ qs_cache' = q.cache
           /\ last' = [op |-> "build_qs", keys |-> kw, key |-> api_key,
                       requested |-> FALSE, built |-> TRUE, url |-> q.url]
           /\ UNCHANGED <<api_key, fmt, debug>>

\* client.call_api(method, **keys)
CallApi ==
    \E method \in DirectMethods, keys \in DirectKeys, resp \in ClientResponses :
        LET c == call_api(qs_cache, api_key, fmt, method, keys, resp)
        IN /\ Len(c.cache) <= MaxEntries
           /\ qs_cache' = c.cache
           /\ last' = [op |-> "call_api", method |-> method, keys |-> keys,
                       key |-> api_key, resp |-> resp, requested |-> TRUE,
                       built |-> TRUE, url |-> c.url, parsed |-> c.parsed,
                       out |-> c.out]
           /\ UNCHANGED <<api_key, fmt, debug>>

\* client.get_tracks(user, limit), answered by one of resps
GetTracksOf(users, limits, resps) ==
    \E user \in users, limit \in limits, resp \in resps :
        LET g == get_tracks(qs_cache, api_key, fmt, debug, user, limit, resp)
        IN /\ Len(g.cache) <= MaxEntries
           /\ qs_cache' = g.cache
           /\ last' = IF g.requested
                         THEN [op |-> "get_tracks", method |-> "user.getRecentTracks",
                               keys |-> TracksKeys(user, limit),
                               user |-> user, limit |-> limit,
                               key |-> api_key, resp |-> resp, requested |-> TRUE,
                               built |-> TRUE, url |-> g.url, parsed |-> g.parsed,
                               out |-> g.out]
                         ELSE [op |-> "get_tracks", user |-> user, limit |-> limit,
                               requested |-> FALSE, built |-> FALSE, out |-> g.out]
           /\ UNCHANGED <<api_key, fmt, debug>>

GetTracks == GetTracksOf(TracksUsers, {PInt(5)}, ClientResponses)

\* client.get_track_info(track, user)
GetTrackInfo ==
    \E track \in TrackRefs, user \in InfoUsers, resp \in ClientResponses :
        LET g == get_track_info(qs_cache, api_key, fmt, track, user, resp)
        IN /\ Len(g.cache) <= MaxEntries
           /\ qs_cache' = g.cache
           /\ last' = IF g.requested
                         THEN [op |-> "get_track_info", method |-> "track.getInfo",
                               keys |-> g.keys, track |-> track, user |-> user,
                               key |-> api_key, resp |-> resp, requested |-> TRUE,
                               built |-> TRUE, url |-> g.url, parsed |-> g.parsed,
                               out |-> g.out]
                         ELSE [op |-> "get_track_info", track |-> track, user |-> user,
                               requested |-> FALSE, built |-> FALSE, out |-> g.out]
           /\ UNCHANGED <<api_key, fmt, debug>>

Next == SetApiKey \/ BuildQs \/ CallApi \/ GetTracks \/ GetTrackInfo

Spec == Init /\ [][Next]_vars

----------------------------------------------------------------------------
(* The response mapper on its own: Track.from_json, Track.from_xml and     *)
(* Track.format applied to items drawn from bounded sets, and get_tracks   *)
(* over the whole range of responses.                                      *)

Absent == [kind |-> "absent"]
Opt(k, v) == IF v = Absent THEN EmptyDict ELSE (k :> v)

HashText == <<"#", "text">>
Discovery == <<"Discovery">>

JsonArtists ==
    {Absent, PStr(DaftPunk), PStr(HashText), PStr(<<"a">> \o HashText),
     PDict("#text" :> PStr(DaftPunk)), PDict("#text" :> PStr(HashText)),
     PDict("name" :> PStr(DaftPunk))}
JsonNames == {Absent, PStr(OneMoreTime)}
JsonAlbums ==
    {Absent, PStr(Discovery), PDict("#text" :> PStr(Discovery)),
     PDict("#text" :> PStr(<<>>))}
JsonMbids == {Absent, PStr(<<>>), PStr(Mbid1)}
JsonLoveds ==
    {Absent, PStr(<<"1">>), PStr(<<"0">>), PStr(<<>>), PStr(<<"1", "0">>), PInt(1)}
JsonAttrs == {Absent, PDict("nowplaying" :> PStr(<<"true">>)), PDict(EmptyDict)}

JsonItems ==
    {PDict(Opt("artist", a) @@ Opt("name", n) @@ Opt("album", al)
           @@ Opt("mbid", m) @@ Opt("loved", l) @@ Opt("@attr", at)) :
        a \in JsonArtists, n \in JsonNames, al \in JsonAlbums,
        m \in JsonMbids, l \in JsonLoveds, at \in JsonAttrs}

CommentEl(s) == Leaf(<<Node("COMMENT", s)>>)

XmlArtists == {<<>>, <<TextEl(DaftPunk)>>}
XmlNames == {<<>>, <<TextEl(OneMoreTime)>>}
XmlAlbums == {<<>>, <<EmptyEl>>, <<TextEl(Discovery)>>}
XmlMbids ==
    {<<>>, <<EmptyEl>>, <<TextEl(Mbid1)>>, <<CommentEl(Mbid1)>>,
     <<EmptyEl, TextEl(Mbid1)>>}
XmlLoveds ==
    {<<>>, <<TextEl(<<"1">>)>>, <<TextEl(<<"0">>)>>, <<EmptyEl>>,
     <<Leaf(<<Node("TEXT", <<"1">>), Node("COMMENT", <<"x">>),
              Node("TEXT", <<"0">>)>>)>>,
     <<TextEl(<<"0">>), TextEl(<<"1">>)>>}

XmlItems ==
    {Element(attrs,
             "artist" :> a @@ "name" :> n @@ "album" :> al @@ "mbid" :> m
             @@ "loved" :> l,
             <<>>) :
        attrs \in SUBSET {"nowplaying"}, a \in XmlArtists, n \in XmlNames,
        al \in XmlAlbums, m \in XmlMbids, l \in XmlLoveds}

Templates ==
    {<<Field("title"), Lit(<<" ", "by", " ">>), Field("artist")>>,
     <<Field("album")>>,
     <<Field("title"), Lit(<<" ">>), Field("rating")>>}
PropSets ==
    {EmptyDict, "rating" :> PStr(<<"5">>), "artist" :> PStr(<<"Someone">>)}

\* an item waits to be mapped, or a client waits for its first call
InitMapper ==
    /\ api_key = <<"K1">>
    /\ fmt \in Formats
    /\ debug \in BOOLEAN
    /\ qs_cache = <<>>
    /\ last \in {[op |-> "init"]}
                \cup {[op |-> "item", wire |-> "json", item |-> j] : j \in JsonItems}
                \cup {[op |-> "item", wire |-> "xml", item |-> x] : x \in XmlItems}

\* Track.from_json(item)
FromJson ==
    /\ last.op = "item" /\ last.wire = "json"
    /\ last' = [op |-> "from_json", item |-> last.item,
                out |-> from_json(debug, last.item)]
    /\ UNCHANGED <<api_key, fmt, debug, qs_cache>>

\* Track.from_xml(item)
FromXml ==
    /\ last.op = "item" /\ last.wire = "xml"
    /\ last' = [op |-> "from_xml", item |-> last.item, out |-> from_xml(last.item)]
    /\ UNCHANGED <<api_key, fmt, debug, qs_cache>>

\* track.format(tmpl, **props), on a track just extracted
Format ==
    /\ last.op \in {"from_json", "from_xml"}
    /\ last.out.status = "ok"
    /\ \E tmpl \in Templates, props \in PropSets :
          last' = [op |-> "format", self |-> last.out.value, tmpl |-> tmpl,
                   props |-> props, out |-> format(last.out.value, tmpl, props)]
    /\ UNCHANGED <<api_key, fmt, debug, qs_cache>>

\* client.get_tracks(user, limit), over every response
ExtractTracks ==
    /\ last.op \in {"init", "get_tracks"}
    /\ GetTracksOf({PStr(<<>>), PStr(Alice)}, Limits, TracksResponses)

NextMapper == FromJson \/ FromXml \/ Format \/ ExtractTracks

SpecMapper == InitMapper /\ [][NextMapper]_vars

----------------------------------------------------------------------------
(* Reading a URL back: what the service decodes from the query string *)

UnquoteSym(c) ==
    CASE c = "+" -> " "
      [] c = "%26" -> "&"
      [] c = "%3D" -> "="
      [] c = "%2B" -> "+"
      [] c = "%23" -> "#"
      [] c = "%25" -> "%"
      [] c = "%3F" -> "?"
      [] OTHER -> c

unquote_plus(s) == [i \in 1..Len(s) |-> UnquoteSym(s[i])]

IndexOf(s, c) ==
    IF \E i \in 1..Len(s) : s[i] = c
        THEN CHOOSE i \in 1..Len(s) : s[i] = c /\ \A j \in 1..(i - 1) : s[j] # c
        ELSE 0

RECURSIVE SplitOn(_, _)
SplitOn(s, c) ==
    LET i == IndexOf(s, c) IN
    IF i = 0 THEN <<s>>
    ELSE <<SubSeq(s, 1, i - 1)>> \o SplitOn(SubSeq(s, i + 1, Len(s)), c)

QueryOf(u) == SubSeq(u, IndexOf(u, "?") + 1, Len(u))

\* the decoded (name, value) pairs of the URL's query string
DecodedParams(u) ==
    LET q == QueryOf(u)
        parts == IF q = <<>> THEN <<>> ELSE SplitOn(q, "&")
    IN {<<unquote_plus(SubSeq(parts[i], 1, IndexOf(parts[i], "=") - 1)),
          unquote_plus(SubSeq(parts[i], IndexOf(parts[i], "=") + 1, Len(parts[i])))>> :
            i \in 1..Len(parts)}

ParamsOf(kw) == {<<KeyStr(kw[i][1]), PyStr(kw[i][2])>> : i \in 1..Len(kw)}

Called == last.op \in {"build_qs", "call_api", "get_tracks", "get_track_info"}
Built == Called /\ last.built
Requested == Called /\ last.requested
Failed == Requested /\ last.resp.status # HttpOk

----------------------------------------------------------------------------
(* C1 *)

\* C1, as stated: every call whose response status is not 200 fails with a
\* LastFMError whose errorcode is the status and whose error is the exact
\* response body text; the body is not parsed and nothing is returned.
C1_AsStated ==
    Failed =>
        /\ last.resp.text.status = "ok"
        /\ last.out = LastFMError(last.resp.status, last.resp.text.value)
        /\ ~last.parsed

\* C1, amended: every call whose response status is not 200 fails with a
\* LastFMError whose errorcode is the status; its error is the exact body
\* text when the body can be read, and "<Server error: e>" for the exception
\* e when reading the body raises; the body is not parsed and nothing is
\* returned.
C1_ErrorCarriesStatusAndBody ==
    Failed =>
        /\ last.out.status = "raise"
        /\ last.out.exc = "LastFMError"
        /\ last.out.errorcode = last.resp.status
        /\ last.resp.text.status = "ok" => last.out.error = last.resp.text.value
        /\ last.resp.text.status # "ok" =>
              last.out.error = PStr(<<"<Server error: ">> \o last.resp.text.msg \o <<">">>)
        /\ ~last.parsed

\* a get_tracks call answered 500 "Internal error" raised LastFMError(500, that text)
C1_Witness ==
    /\ Failed
    /\ last.op = "get_tracks"
    /\ last.resp = Response(500, Ok(InternalError))
    /\ last.out = LastFMError(500, InternalError)

----------------------------------------------------------------------------
(* C2 *)

\* C2: every URL build_qs returns carries the api_key configured at the time
\* of the call, whatever calls and key changes came before.
C2_UrlCarriesCurrentKey ==
    Built =>
        \A p \in DecodedParams(last.url) : p[1] = <<"api_key">> => p[2] = last.key

----------------------------------------------------------------------------
(* C3 *)

\* C3: the URL call_api requests decodes to exactly the caller's parameters
\* plus method, plus api_key = the configured key, plus format=json in JSON
\* mode and no format parameter in XML mode.
C3_RequestedParams ==
    Requested =>
        DecodedParams(last.url) =
            ParamsOf(last.keys)
            \cup {<<<<"method">>, <<last.method>>>>, <<<<"api_key">>, last.key>>}
            \cup (IF fmt = "json" THEN {<<<<"format">>, <<"json">>>>} ELSE {})

----------------------------------------------------------------------------
(* C4 *)

IsBareTrackResponse ==
    /\ last.op = "get_tracks"
    /\ last.requested
    /\ fmt = "json"
    /\ last.resp.status = HttpOk
    /\ last.resp.text.status = "ok"
    /\ last.resp.text.value.syntax = "json"
    /\ PyIn("recenttracks", last.resp.text.value.doc)
    /\ PyIn("track", last.resp.text.value.doc.f["recenttracks"])
    /\ last.resp.text.value.doc.f["recenttracks"].f["track"].kind = "dict"

BareTrack == last.resp.text.value.doc.f["recenttracks"].f["track"]

\* C4: in JSON mode, get_tracks on a response whose recenttracks.track is the
\* bare object t gives what it gives on the response whose recenttracks.track
\* is the list [t], and a sequence of one track when it gives tracks.
C4_BareObjectAsOneElementList ==
    IsBareTrackResponse =>
        /\ last.out =
              get_tracks(<<>>, last.key, fmt, debug, last.user, last.limit,
                  Response(HttpOk,
                      Ok(Text("json", RecentTracks(PList(<<BareTrack>>)))))).out
        /\ last.out.status = "ok" => Len(last.out.value) = 1

\* the bare now-playing object came back as one playing Daft Punk track
C4_Witness ==
    /\ IsBareTrackResponse
    /\ BareTrack = JsonNowPlaying
    /\ last.out.status = "ok"
    /\ Len(last.out.value) = 1
    /\ last.out.value[1]["artist"] = PStr(DaftPunk)
    /\ last.out.value[1]["playing"] = PBool(TRUE)

----------------------------------------------------------------------------
(* C5 *)

Extracted == last.op \in {"from_json", "from_xml"} /\ last.out.status = "ok"

\* C5: in both wire formats the extracted loved is None when the item has no
\* loved field, True when the loved value is exactly "1", False for any other
\* present value.
C5_LovedIsTriState ==
    Extracted =>
        IF last.op = "from_json"
            THEN last.out.value["loved"] =
                    (IF "loved" \notin DOMAIN last.item.f THEN PNone
                     ELSE PBool(last.item.f["loved"] = PStr(<<"1">>)))
            ELSE last.out.value["loved"] =
                    (IF getElementsByTagName(last.item, "loved") = <<>> THEN PNone
                     ELSE PBool(TextParts(getElementsByTagName(last.item, "loved")[1].childNodes)
                                = <<"1">>))

\* a JSON item without loved was extracted with loved None, not False
C5_Witness ==
    /\ Extracted
    /\ last.op = "from_json"
    /\ "loved" \notin DOMAIN last.item.f
    /\ last.out.value["loved"] = PNone
    /\ last.out.value["loved"] # PBool(FALSE)

----------------------------------------------------------------------------
(* C6 *)

\* C6: from_json on a track object whose artist is {"#text": v} gives artist
\* v, and on one whose artist is the plain string v gives artist v too, for
\* every string v.
C6_ArtistOfBothShapes ==
    (/\ last.op = "from_json"
     /\ "name" \in DOMAIN last.item.f
     /\ "artist" \in DOMAIN last.item.f) =>
        LET a == last.item.f["artist"] IN
        /\ (a.kind = "str") =>
              last.out.status = "ok" /\ last.out.value["artist"] = a
        /\ (a.kind = "dict" /\ "#text" \in DOMAIN a.f) =>
              last.out.status = "ok" /\ last.out.value["artist"] = a.f["#text"]

----------------------------------------------------------------------------
(* C7 *)

\* the substitution context the claim describes: the track's fields that are
\* not None, with the caller's properties on top
ClaimedContext(self, props) ==
    props @@ [n \in {m \in DOMAIN self : self[m] # PNone} |-> self[n]]

\* C7: format substitutes over the track's non-None fields and the caller's
\* properties, the caller's value winning where both name a field.
C7_FormatContext ==
    last.op = "format" =>
        last.out = StrFormat(last.tmpl, ClaimedContext(last.self, last.props))

----------------------------------------------------------------------------
(* C8 *)

\* the request parameters the claim gives each variant of the track argument
ClaimedInfoParams(track) ==
    CASE track.ref = "str" -> {<<<<"mbid">>, track.s>>}
      [] track.ref = "tuple" ->
            {<<<<"artist">>, track.artist>>, <<<<"track">>, track.title>>}
      [] track.ref = "Track" ->
            IF track.track["mbid"] # PNone
                THEN {<<<<"mbid">>, PyStr(track.track["mbid"])>>}
                ELSE {<<<<"artist">>, PyStr(track.track["artist"])>>,
                      <<<<"track">>, PyStr(track.track["title"])>>}

\* C8: get_track_info turns each variant of the track argument into its
\* parameters and issues the track.getInfo request with them.
C8_TrackRefResolved ==
    last.op = "get_track_info" =>
        /\ last.requested
        /\ <<<<"method">>, <<"track.getInfo">>>> \in DecodedParams(last.url)
        /\ {p \in DecodedParams(last.url) : p[1] \in {<<"mbid">>, <<"artist">>, <<"track">>}}
              = ClaimedInfoParams(last.track)

----------------------------------------------------------------------------
(* C9 *)

\* C9: in both wire formats an mbid present as the empty string is extracted
\* as None, and a present non-empty mbid is kept unchanged.
C9_EmptyMbidIsAbsent ==
    Extracted =>
        IF last.op = "from_json"
            THEN "mbid" \in DOMAIN last.item.f =>
                    last.out.value["mbid"] =
                        (IF last.item.f["mbid"] = PStr(<<>>) THEN PNone
                         ELSE last.item.f["mbid"])
            ELSE getElementsByTagName(last.item, "mbid") # <<>> =>
                    LET text == TextParts(getElementsByTagName(last.item, "mbid")[1].childNodes) IN
                    last.out.value["mbid"] = (IF text = <<>> THEN PNone ELSE PStr(text))

\* an XML item with an empty mbid element was extracted with mbid None
C9_Witness ==
    /\ Extracted
    /\ last.op = "from_xml"
    /\ getElementsByTagName(last.item, "mbid") = <<EmptyEl>>
    /\ last.out.value["mbid"] = PNone

----------------------------------------------------------------------------
(* C10 *)

JsonLacksRequired(item) ==
    item.kind = "dict" /\ ~({"artist", "name"} \subseteq DOMAIN item.f)
XmlLacksRequired(item) ==
    getElementsByTagName(item, "artist") = <<>> \/ getElementsByTagName(item, "name") = <<>>

\* the track items of a parsed get_tracks response
ItemsOfJson(doc) ==
    IF PyIn("recenttracks", doc) /\ PyIn("track", doc.f["recenttracks"])
        THEN LET t == doc.f["recenttracks"].f["track"]
             IN IF t.kind = "list" THEN t.items ELSE <<t>>
        ELSE <<>>
ItemsOfXml(doc) == getElementsByTagName(doc, "track")

ParsedTracksResponse ==
    /\ last.op = "get_tracks"
    /\ last.requested
    /\ last.parsed
    /\ last.resp.text.value.syntax = fmt

ResponseLacksRequired ==
    IF fmt = "json"
        THEN \E i \in 1..Len(ItemsOfJson(last.resp.text.value.doc)) :
                JsonLacksRequired(ItemsOfJson(last.resp.text.value.doc)[i])
        ELSE \E i \in 1..Len(ItemsOfXml(last.resp.text.value.doc)) :
                XmlLacksRequired(ItemsOfXml(last.resp.text.value.doc)[i])

\* C10: in both wire formats, extraction of an item without artist or without
\* title raises, and get_tracks on a response holding such an item raises and
\* returns no Track.
C10_MissingRequiredFieldFails ==
    /\ (last.op = "from_json" /\ JsonLacksRequired(last.item)) =>
          last.out.status = "raise"
    /\ (last.op = "from_xml" /\ XmlLacksRequired(last.item)) =>
          last.out.status = "raise"
    /\ (ParsedTracksResponse /\ ResponseLacksRequired) =>
          last.out.status = "raise"

\* an XML response whose second track has no name element raised IndexError
C10_Witness ==
    /\ ParsedTracksResponse
    /\ fmt = "xml"
    /\ last.resp.text.value.doc = XmlDoc(<<XmlFull, XmlNoName>>)
    /\ last.out = Raise("IndexError")

====
